---- MODULE Spec2Model ----
(***************************************************************************)
(* The DTXT reference implementation (ref-impl/rs): the recursive-descent  *)
(* parser DTXTParser, the canonical stringifier and the conformance        *)
(* runner's normalize.  The input is a sequence of one-character strings   *)
(* (bytes); pos is the 0-based byte index the code keeps, so the byte at   *)
(* pos is input[pos + 1].                                                  *)
(***************************************************************************)
EXTENDS Integers, Sequences, FiniteSets, TLC

VARIABLES input, pos, pc, stack, ret, result, phase, first, closes, vlog

vars == <<input, pos, pc, stack, ret, result, phase, first, closes, vlog>>

\* ------------------------------------------------------------------ bytes

Digits == {"0", "1", "2", "3", "4", "5", "6", "7", "8", "9"}

Digits19 == Digits \ {"0"}

Upper == {"A", "B", "C", "D", "E", "F", "G", "H", "I", "J", "K", "L", "M",
          "N", "O", "P", "Q", "R", "S", "T", "U", "V", "W", "X", "Y", "Z"}

Lower == {"a", "b", "c", "d", "e", "f", "g", "h", "i", "j", "k", "l", "m",
          "n", "o", "p", "q", "r", "s", "t", "u", "v", "w", "x", "y", "z"}

\* u8::is_ascii_alphanumeric() || ch == b'_'
IsKeyChar(ch) == ch \in Digits \cup Upper \cup Lower \cup {"_"}

\* The bytes of keys in ascending byte value: '0'-'9' < 'A'-'Z' < '_' < 'a'-'z'.
AsciiOrder == <<"0", "1", "2", "3", "4", "5", "6", "7", "8", "9",
                "A", "B", "C", "D", "E", "F", "G", "H", "I", "J", "K", "L", "M",
                "N", "O", "P", "Q", "R", "S", "T", "U", "V", "W", "X", "Y", "Z",
                "_",
                "a", "b", "c", "d", "e", "f", "g", "h", "i", "j", "k", "l", "m",
                "n", "o", "p", "q", "r", "s", "t", "u", "v", "w", "x", "y", "z">>

Ord(ch) == CHOOSE i \in 1..Len(AsciiOrder) : AsciiOrder[i] = ch

\* The string delimiter, byte 0x60 (a grave accent cannot be written in a TLA+ string).
Backtick == "BACKTICK"

\* The end-of-input marker of Option<u8>: current() = None.
None == "None"

\* The char '\0' that parse_object reports when current() is None.
NUL == "\\0"

\* input.get(p).copied()
ByteAt(inp, p) == IF p >= 0 /\ p < Len(inp) THEN inp[p + 1] ELSE None

\* &input[a..b] of a slice: the bytes a..b-1 (the caller checks a <= b <= len).
Slice(inp, a, b) == SubSeq(inp, a + 1, b)

\* memchr(needle, &input[from..]): the absolute index of the first needle at or
\* after from, or -1 for Option::None.
RECURSIVE Memchr(_, _, _)
Memchr(needle, inp, from) ==
    IF from >= Len(inp) THEN -1
    ELSE IF inp[from + 1] = needle THEN from
    ELSE Memchr(needle, inp, from + 1)

\* ----------------------------------------------------------------- cursor

\* skip_whitespace stopping at a comment that no newline ends
RECURSIVE skip_whitespace_open_comment(_, _)
skip_whitespace_open_comment(inp, i) ==
    IF i >= Len(inp) THEN i
    ELSE IF inp[i + 1] \in {" ", "\t", "\r", "\n"}
         THEN skip_whitespace_open_comment(inp, i + 1)
    ELSE IF inp[i + 1] = "/" /\ i + 1 < Len(inp) /\ inp[i + 2] = "/"
         THEN LET next_nl == Memchr("\n", inp, i + 2)
              IN  IF next_nl # -1 THEN skip_whitespace_open_comment(inp, next_nl + 1)
                  ELSE i
    ELSE i

RECURSIVE skip_whitespace(_, _)
skip_whitespace(inp, i) ==
    IF i >= Len(inp) THEN i
    ELSE IF inp[i + 1] \in {" ", "\t", "\r", "\n"} THEN skip_whitespace(inp, i + 1)
    ELSE IF inp[i + 1] = "/" /\ i + 1 < Len(inp) /\ inp[i + 2] = "/"
         THEN LET next_nl == Memchr("\n", inp, i + 2)
              IN  IF next_nl # -1 THEN skip_whitespace(inp, next_nl + 1)
                  ELSE Len(inp)
    ELSE i

\* ----------------------------------------------------------------- errors

UnexpectedChar(p, ch) == [kind |-> "UnexpectedChar", pos |-> p, ch |-> ch]

UnexpectedEOF == [kind |-> "UnexpectedEOF"]

InvalidNumber(s) == [kind |-> "InvalidNumber", text |-> s]

InvalidConstructor(s) == [kind |-> "InvalidConstructor", text |-> s]

TrailingData(p) == [kind |-> "TrailingData", pos |-> p]

\* A lexer's outcome: a value and the new position, an error, or a panic
\* (an out-of-range slice aborts the call).
Ok(v, p) == [st |-> "Ok", val |-> v, pos |-> p]

Err(e, p) == [st |-> "Err", err |-> e, pos |-> p]

Panic(p) == [st |-> "Panic", pos |-> p]

\* ------------------------------------------------------------ value model

VString(s) == [t |-> "String", s |-> s]

VNumber(n) == [t |-> "Number", n |-> n]

VBool(b) == [t |-> "Bool", b |-> b]

VNull == [t |-> "Null"]

VBigInt(n) == [t |-> "BigInt", n |-> n]

VDate(s) == [t |-> "Date", s |-> s]

VBytes(b) == [t |-> "Bytes", b |-> b]

VArray(a) == [t |-> "Array", a |-> a]

VObject(m) == [t |-> "Object", m |-> m]

\* FxHashMap::default()
EmptyMap == [k \in {} |-> VNull]

\* an insert that keeps the value a key already has
MapInsertKeepFirst(m, k, v) ==
    [x \in (DOMAIN m) \cup {k} |-> IF x \in DOMAIN m THEN m[x] ELSE v]

\* FxHashMap::insert: a key already present has its value replaced.
MapInsert(m, k, v) == [x \in (DOMAIN m) \cup {k} |-> IF x = k THEN v ELSE m[x]]

\* ---------------------------------------------------------------- numbers

RECURSIVE Pow10(_)
Pow10(n) == IF n <= 0 THEN 1 ELSE 10 * Pow10(n - 1)

RECURSIVE NumDigits(_)
NumDigits(m) == IF m < 10 THEN 1 ELSE 1 + NumDigits(m \div 10)

DigitVal(ch) == Ord(ch) - 1

DigitChar(d) == AsciiOrder[d + 1]

RECURSIVE DigitsToNat(_)
DigitsToNat(ds) ==
    IF ds = <<>> THEN 0
    ELSE 10 * DigitsToNat(SubSeq(ds, 1, Len(ds) - 1)) + DigitVal(ds[Len(ds)])

RECURSIVE NatToDigits(_)
NatToDigits(m) ==
    IF m < 10 THEN <<DigitChar(m)>>
    ELSE Append(NatToDigits(m \div 10), DigitChar(m % 10))

IntToChars(n) == IF n < 0 THEN <<"-">> \o NatToDigits(0 - n) ELSE NatToDigits(n)

RECURSIVE ScanDigits(_, _)
ScanDigits(inp, i) ==
    IF ByteAt(inp, i) \in Digits THEN ScanDigits(inp, i + 1) ELSE i

\* An f64 as its shortest round-trip decimal: (-1)^neg * m * 10^e with m not a
\* multiple of 10 (m = 0 has e = 0), or an infinity.  Exact for the decimals of at
\* most nine significant digits in the normal range (f64 holds 15); the literal's
\* decimal exponent beyond the f64 range gives the infinity or the zero Rust's
\* dec2flt gives.
F64Fin(neg, m, e) == [k |-> "fin", neg |-> neg, m |-> m, e |-> e]

F64Inf(neg) == [k |-> "inf", neg |-> neg]

RECURSIVE StripZeros(_, _)
StripZeros(m, e) == IF m % 10 = 0 THEN StripZeros(m \div 10, e + 1) ELSE <<m, e>>

\* The digits without their trailing zeros, which go to the exponent.
RECURSIVE TrimDigits(_, _)
TrimDigits(ds, e) ==
    IF ds # <<>> /\ ds[Len(ds)] = "0" THEN TrimDigits(SubSeq(ds, 1, Len(ds) - 1), e + 1)
    ELSE <<ds, e>>

\* The first nine significant digits of m, as a number.
Lead9(m) == m * Pow10(9 - NumDigits(m))

\* f64::MAX is 1.7976931348623157e308; the least positive f64 is 4.9e-324.
F64Round(neg, m0, e0) ==
    IF m0 = 0 THEN F64Fin(neg, 0, 0)
    ELSE LET c == StripZeros(m0, e0)
             sci == c[2] + NumDigits(c[1]) - 1
         IN  IF sci > 308 \/ (sci = 308 /\ Lead9(c[1]) >= 179769314) THEN F64Inf(neg)
             ELSE IF sci < -324 THEN F64Fin(neg, 0, 0)
             ELSE F64Fin(neg, c[1], c[2])

\* <f64 as FromStr>::from_str on a lexeme of sign, digit, '.', 'e' bytes:
\*   Number ::= [+-]? ( Digit+ | Digit+ '.' Digit* | Digit* '.' Digit+ ) Exp?
\*   Exp    ::= [eE] [+-]? Digit+
\* and the whole string must match.  [st |-> "Err"] or [st |-> "Ok", val |-> f64].
RustParseF64(s) ==
    LET neg == ByteAt(s, 0) = "-"
        i1 == IF ByteAt(s, 0) \in {"-", "+"} THEN 1 ELSE 0
        intEnd == ScanDigits(s, i1)
        hasDot == ByteAt(s, intEnd) = "."
        fracEnd == IF hasDot THEN ScanDigits(s, intEnd + 1) ELSE intEnd
        fracDigits == IF hasDot THEN Slice(s, intEnd + 1, fracEnd) ELSE <<>>
        allDigits == Slice(s, i1, intEnd) \o fracDigits
        hasExp == ByteAt(s, fracEnd) \in {"e", "E"}
        expNeg == ByteAt(s, fracEnd + 1) = "-"
        q == IF ByteAt(s, fracEnd + 1) \in {"-", "+"} THEN fracEnd + 2 ELSE fracEnd + 1
        expEnd == ScanDigits(s, q)
        expAbs == DigitsToNat(Slice(s, q, expEnd))
        exp == IF ~hasExp THEN 0 ELSE IF expNeg THEN 0 - expAbs ELSE expAbs
        end == IF hasExp THEN expEnd ELSE fracEnd
    IN  IF allDigits = <<>> \/ (hasExp /\ expEnd = q) \/ end # Len(s)
        THEN [st |-> "Err"]
        ELSE LET sig == TrimDigits(allDigits, exp - Len(fracDigits))
             IN  [st |-> "Ok", val |-> F64Round(neg, DigitsToNat(sig[1]), sig[2])]

\* DTXTParser::parse_number: the lexeme is delimited by the code's own scan,
\* then handed to Rust's f64 parser.
parse_number(inp, start) ==
    LET p1 == IF ByteAt(inp, start) = "-" THEN start + 1 ELSE start
        p2 == IF ByteAt(inp, p1) = "0" THEN p1 + 1
              ELSE IF ByteAt(inp, p1) \in Digits19 THEN ScanDigits(inp, p1)
              ELSE p1
        p3 == IF ByteAt(inp, p2) = "." THEN ScanDigits(inp, p2 + 1) ELSE p2
        q == IF ByteAt(inp, p3 + 1) \in {"+", "-"} THEN p3 + 2 ELSE p3 + 1
        p4 == IF ByteAt(inp, p3) \in {"e", "E"} THEN ScanDigits(inp, q) ELSE p3
        num_str == Slice(inp, start, p4)
        f == RustParseF64(num_str)
    IN  IF f.st = "Ok" THEN Ok(VNumber(f.val), p4)
        ELSE Err(InvalidNumber(num_str), p4)

\* ------------------------------------------------------------ keys, strings

RECURSIVE ScanKey(_, _)
ScanKey(inp, i) ==
    IF i < Len(inp) /\ IsKeyChar(inp[i + 1]) THEN ScanKey(inp, i + 1) ELSE i

\* DTXTParser::parse_key: &bytes[start..i] panics when start is past the end.
parse_key(inp, start) ==
    LET i == ScanKey(inp, start)
    IN  IF start > Len(inp) THEN Panic(i) ELSE Ok(Slice(inp, start, i), i)

\* DTXTParser::parse_string
parse_string(inp, p) ==
    LET start == p + 1
        abs_end == Memchr(Backtick, inp, start)
    IN  IF start > Len(inp) THEN Panic(start)
        ELSE IF abs_end # -1 THEN Ok(VString(Slice(inp, start, abs_end)), abs_end + 1)
        ELSE Err(UnexpectedEOF, start)

\* ------------------------------------------------------------ constructors

I64MaxDigits == <<"9", "2", "2", "3", "3", "7", "2", "0", "3", "6",
                  "8", "5", "4", "7", "7", "5", "8", "0", "7">>

I64MinDigits == <<"9", "2", "2", "3", "3", "7", "2", "0", "3", "6",
                  "8", "5", "4", "7", "7", "5", "8", "0", "8">>

\* a <= b for digit strings of one length
RECURSIVE DigitsLeq(_, _)
DigitsLeq(a, b) ==
    IF a = <<>> THEN TRUE
    ELSE IF Head(a) # Head(b) THEN DigitVal(Head(a)) < DigitVal(Head(b))
    ELSE DigitsLeq(Tail(a), Tail(b))

RECURSIVE StripLeadingZeros(_)
StripLeadingZeros(ds) ==
    IF Len(ds) > 1 /\ Head(ds) = "0" THEN StripLeadingZeros(Tail(ds)) ELSE ds

\* An i64 as its sign and decimal digits (no leading zero, zero is not negative).
\* <i64 as FromStr>::from_str: [+-]? Digit+, within the i64 range.
RustParseI64(s) ==
    LET signed == ByteAt(s, 0) \in {"-", "+"}
        neg == ByteAt(s, 0) = "-"
        ds == IF signed THEN Tail(s) ELSE s
        c == StripLeadingZeros(ds)
        lim == IF neg THEN I64MinDigits ELSE I64MaxDigits
    IN  IF ds = <<>> \/ (\E i \in 1..Len(ds) : ds[i] \notin Digits) THEN [st |-> "Err"]
        ELSE IF Len(c) > 19 \/ (Len(c) = 19 /\ ~DigitsLeq(c, lim)) THEN [st |-> "Err"]
        ELSE [st |-> "Ok", val |-> [neg |-> neg /\ c # <<"0">>, digits |-> c]]

\* i64::to_string
I64ToString(n) == IF n.neg THEN <<"-">> \o n.digits ELSE n.digits

HexUpper == <<"0", "1", "2", "3", "4", "5", "6", "7", "8", "9",
              "A", "B", "C", "D", "E", "F">>

HexLower == <<"0", "1", "2", "3", "4", "5", "6", "7", "8", "9",
              "a", "b", "c", "d", "e", "f">>

\* char::to_digit(16), or -1 for None
HexVal(ch) ==
    IF \E i \in 1..16 : HexUpper[i] = ch THEN (CHOOSE i \in 1..16 : HexUpper[i] = ch) - 1
    ELSE IF \E i \in 1..16 : HexLower[i] = ch THEN (CHOOSE i \in 1..16 : HexLower[i] = ch) - 1
    ELSE -1

RECURSIVE HexDigitsVal(_)
HexDigitsVal(ds) ==
    IF ds = <<>> THEN 0
    ELSE 16 * HexDigitsVal(SubSeq(ds, 1, Len(ds) - 1)) + HexVal(ds[Len(ds)])

\* u8::from_str_radix(src, 16) on a non-empty src of at most two bytes: a leading
\* '+' is a sign (a '-' is not, u8 being unsigned), the rest must be hex digits.
U8FromStrRadix16(digits) ==
    LET ds == IF Head(digits) = "+" THEN Tail(digits) ELSE digits
    IN  IF ds = <<>> \/ (\E i \in 1..Len(ds) : HexVal(ds[i]) = -1) THEN [st |-> "Err"]
        ELSE [st |-> "Ok", val |-> HexDigitsVal(ds)]

\* The "B" arm: for i in (0..payload.len()).step_by(2) { &payload[i..i+2] ... }.
\* The slice panics when i + 2 is past the end of the payload.
RECURSIVE HexPairs(_, _, _)
HexPairs(payload, i, bytes) ==
    IF i >= Len(payload) THEN [st |-> "Ok", val |-> bytes]
    ELSE IF i + 2 > Len(payload) THEN [st |-> "Panic"]
    ELSE LET byte == U8FromStrRadix16(Slice(payload, i, i + 2))
         IN  IF byte.st = "Err" THEN [st |-> "Err"]
             ELSE HexPairs(payload, i + 2, Append(bytes, byte.val))

\* The match on type_name, given the payload and the position after ')'.
ConstructorValue(type_name, payload, p) ==
    IF type_name = <<"D">> THEN Ok(VDate(payload), p)
    ELSE IF type_name = <<"B", "N">>
    THEN LET num == RustParseI64(payload)
         IN  IF num.st = "Ok" THEN Ok(VBigInt(num.val), p)
             ELSE Err(InvalidConstructor(<<"B", "N", "(">> \o payload \o <<")">>), p)
    ELSE IF type_name = <<"B">>
    THEN LET bytes == HexPairs(payload, 0, <<>>)
         IN  IF bytes.st = "Ok" THEN Ok(VBytes(bytes.val), p)
             ELSE IF bytes.st = "Panic" THEN Panic(p)
             ELSE Err(InvalidConstructor(<<"B", "(">> \o payload \o <<")">>), p)
    ELSE Err(InvalidConstructor(type_name), p)

\* DTXTParser::parse_constructor
parse_constructor(inp, start) ==
    LET nameEnd == ScanKey(inp, start)
        type_name == Slice(inp, start, nameEnd)
        payload_start == nameEnd + 1
        close == Memchr(")", inp, payload_start)
    IN  IF ByteAt(inp, nameEnd) # "(" THEN Err(InvalidConstructor(type_name), nameEnd)
        ELSE IF close = -1 THEN Err(UnexpectedEOF, Len(inp))
        ELSE ConstructorValue(type_name, Slice(inp, payload_start, close), close + 1)

\* ------------------------------------------------------------ stringifier

\* indent: Option<&str>
IndentNone == [some |-> FALSE, unit |-> <<>>]

IndentSome(unit) == [some |-> TRUE, unit |-> unit]

RECURSIVE Repeat(_, _)
Repeat(unit, n) == IF n <= 0 THEN <<>> ELSE unit \o Repeat(unit, n - 1)

\* <str as Ord>::lt on keys: byte-lexicographic, a proper prefix first.
RECURSIVE StrLess(_, _)
StrLess(a, b) ==
    IF b = <<>> THEN FALSE
    ELSE IF a = <<>> THEN TRUE
    ELSE IF Head(a) # Head(b) THEN Ord(Head(a)) < Ord(Head(b))
    ELSE StrLess(Tail(a), Tail(b))

RECURSIVE SortedInsert(_, _)
SortedInsert(sorted, k) ==
    IF sorted = <<>> THEN <<k>>
    ELSE IF StrLess(k, Head(sorted)) THEN <<k>> \o sorted
    ELSE <<Head(sorted)>> \o SortedInsert(Tail(sorted), k)

\* the keys left in the order the map iterates them
sort_unstable_skipped(keys) == keys

\* keys.sort_unstable()
RECURSIVE sort_unstable(_)
sort_unstable(keys) ==
    IF keys = <<>> THEN <<>> ELSE SortedInsert(sort_unstable(Tail(keys)), Head(keys))

\* map.keys().collect(): the keys in the hash map's iteration order, which the
\* program does not control; rank (an injective ranking of the keys) stands for it.
RECURSIVE KeysByRank(_, _)
KeysByRank(ks, rank) ==
    IF ks = {} THEN <<>>
    ELSE LET k == CHOOSE x \in ks : \A y \in ks : rank[x] <= rank[y]
         IN  <<k>> \o KeysByRank(ks \ {k}, rank)

\* The keys.sort_unstable() of stringify_value's Object arm, after the collect.
ObjectKeys(m, rank) == sort_unstable(KeysByRank(DOMAIN m, rank))

\* ryu::Buffer::format: "inf"/"-inf" for the infinities, else the shortest digits
\* m (length digits) and exponent e laid out by kk = length + e.
FormatF64(n) ==
    IF n.k = "inf" THEN (IF n.neg THEN <<"-">> ELSE <<>>) \o <<"i", "n", "f">>
    ELSE LET sign == IF n.neg THEN <<"-">> ELSE <<>>
             ds == NatToDigits(n.m)
             length == Len(ds)
             kk == length + n.e
         IN  IF n.m = 0 THEN sign \o <<"0", ".", "0">>
             ELSE IF 0 <= n.e /\ kk <= 16
                  THEN sign \o ds \o Repeat(<<"0">>, n.e) \o <<".", "0">>
             ELSE IF 0 < kk /\ kk <= 16
                  THEN sign \o SubSeq(ds, 1, kk) \o <<".">> \o SubSeq(ds, kk + 1, length)
             ELSE IF -5 < kk /\ kk <= 0
                  THEN sign \o <<"0", ".">> \o Repeat(<<"0">>, 0 - kk) \o ds
             ELSE IF length = 1
                  THEN sign \o ds \o <<"e">> \o IntToChars(kk - 1)
             ELSE sign \o <<Head(ds), ".">> \o Tail(ds) \o <<"e">> \o IntToChars(kk - 1)

RECURSIVE HexOfBytes(_)
HexOfBytes(bytes) ==
    IF bytes = <<>> THEN <<>>
    ELSE <<HexUpper[(Head(bytes) \div 16) + 1], HexUpper[(Head(bytes) % 16) + 1]>>
         \o HexOfBytes(Tail(bytes))

RECURSIVE stringify_value(_, _, _, _)
RECURSIVE StringifyItems(_, _, _, _, _)
RECURSIVE StringifyMembers(_, _, _, _, _, _)

\* the loops with the indented mode's ',' left out after the last item
RECURSIVE StringifyItemsNoLastComma(_, _, _, _, _)
StringifyItemsNoLastComma(arr, i, indent, level, rank) ==
    IF i > Len(arr) THEN <<>>
    ELSE IF indent.some
    THEN Repeat(indent.unit, level + 1) \o stringify_value(arr[i], indent, level + 1, rank)
         \o (IF i < Len(arr) THEN <<",">> ELSE <<>>) \o <<"\n">>
         \o StringifyItemsNoLastComma(arr, i + 1, indent, level, rank)
    ELSE stringify_value(arr[i], indent, level + 1, rank)
         \o (IF i < Len(arr) THEN <<",">> ELSE <<>>)
         \o StringifyItemsNoLastComma(arr, i + 1, indent, level, rank)

\* the Array arm's loops over arr.iter(), from item i on
StringifyItems(arr, i, indent, level, rank) ==
    IF i > Len(arr) THEN <<>>
    ELSE IF indent.some
    THEN Repeat(indent.unit, level + 1) \o stringify_value(arr[i], indent, level + 1, rank)
         \o <<",", "\n">> \o StringifyItems(arr, i + 1, indent, level, rank)
    ELSE stringify_value(arr[i], indent, level + 1, rank)
         \o (IF i < Len(arr) THEN <<",">> ELSE <<>>)
         \o StringifyItems(arr, i + 1, indent, level, rank)

\* the Object arm's loops over the sorted keys, from key i on
StringifyMembers(m, keys, i, indent, level, rank) ==
    IF i > Len(keys) THEN <<>>
    ELSE IF indent.some
    THEN Repeat(indent.unit, level + 1) \o keys[i] \o <<":", " ">>
         \o stringify_value(m[keys[i]], indent, level + 1, rank)
         \o <<",", "\n">> \o StringifyMembers(m, keys, i + 1, indent, level, rank)
    ELSE keys[i] \o <<":">> \o stringify_value(m[keys[i]], indent, level + 1, rank)
         \o (IF i < Len(keys) THEN <<",">> ELSE <<>>)
         \o StringifyMembers(m, keys, i + 1, indent, level, rank)

stringify_value(value, indent, level, rank) ==
    CASE value.t = "String" -> <<Backtick>> \o value.s \o <<Backtick>>
      [] value.t = "Number" -> FormatF64(value.n)
      [] value.t = "Bool" -> IF value.b THEN <<"T">> ELSE <<"F">>
      [] value.t = "Null" -> <<"N">>
      [] value.t = "BigInt" -> <<"B", "N", "(">> \o I64ToString(value.n) \o <<")">>
      [] value.t = "Date" -> <<"D", "(">> \o value.s \o <<")">>
      [] value.t = "Bytes" -> <<"B", "(">> \o HexOfBytes(value.b) \o <<")">>
      [] value.t = "Array" ->
            IF value.a = <<>> THEN <<"[", "]">>
            ELSE <<"[">> \o (IF indent.some THEN <<"\n">> ELSE <<>>)
                 \o StringifyItems(value.a, 1, indent, level, rank)
                 \o (IF indent.some THEN Repeat(indent.unit, level) ELSE <<>>)
                 \o <<"]">>
      [] value.t = "Object" ->
            IF DOMAIN value.m = {} THEN <<"{", "}">>
            ELSE <<"{">> \o (IF indent.some THEN <<"\n">> ELSE <<>>)
                 \o StringifyMembers(value.m, ObjectKeys(value.m, rank), 1, indent, level, rank)
                 \o (IF indent.some THEN Repeat(indent.unit, level) ELSE <<>>)
                 \o <<"}">>

stringify(value, indent, rank) == stringify_value(value, indent, 0, rank)

\* ------------------------------------------- conformance runner: normalize

JString(s) == [j |-> "String", s |-> s]

JInt(sat, neg, m, e) == [j |-> "Int", sat |-> sat, neg |-> neg, m |-> m, e |-> e]

JFloat(n) == [j |-> "Float", n |-> n]

JBool(b) == [j |-> "Bool", b |-> b]

JNull == [j |-> "Null"]

JArray(a) == [j |-> "Array", a |-> a]

JObject(m) == [j |-> "Object", m |-> m]

\* The Number arm.  n.fract() == 0.0 holds of the finite integers (e >= 0 in the
\* shortest decimal); `*n as i64` saturates at the i64 range (i64::MAX is
\* 9223372036854775807); serde_json::Number::from_f64 is None for an infinity.
NormalizeNumber(n) ==
    IF n.k = "inf" THEN JNull
    ELSE IF n.m = 0 THEN JInt("no", FALSE, 0, 0)
    ELSE IF n.e < 0 THEN JFloat(n)
    ELSE LET sci == n.e + NumDigits(n.m) - 1
         IN  IF sci > 18 \/ (sci = 18 /\ Lead9(n.m) >= 922337204)
             THEN JInt(IF n.neg THEN "min" ELSE "max", n.neg, 0, 0)
             ELSE JInt("no", n.neg, n.m, n.e)

\* s.split('T').next(): the text before the first 'T'
BeforeT(s) ==
    LET t == Memchr("T", s, 0) IN IF t = -1 THEN s ELSE Slice(s, 0, t)

RECURSIVE normalize(_)
normalize(val) ==
    CASE val.t = "String" -> JString(val.s)
      [] val.t = "Number" -> NormalizeNumber(val.n)
      [] val.t = "Bool" -> JBool(val.b)
      [] val.t = "Null" -> JNull
      [] val.t = "BigInt" ->
            JString(<<"$", "b", "i", "g", "i", "n", "t", ":">> \o I64ToString(val.n))
      [] val.t = "Date" -> JString(<<"$", "d", "a", "t", "e", ":">> \o BeforeT(val.s))
      [] val.t = "Bytes" ->
            JString(<<"$", "b", "i", "n", "a", "r", "y", ":">> \o HexOfBytes(val.b))
      [] val.t = "Array" -> JArray([i \in 1..Len(val.a) |-> normalize(val.a[i])])
      [] val.t = "Object" -> JObject([k \in DOMAIN val.m |-> normalize(val.m[k])])

\* ------------------------------------------------------------- the parser
\* One parse call is a run of the steps below.  stack holds one frame per
\* parse_object / parse_array call in progress: its map or arr, the key awaiting
\* its value, and (for the properties) the members in source order, whether
\* the last member was followed by a comma, whether a member began with no comma
\* after the one before it, and where the current pass of the loop began.  ret
\* is the value a finished
\* parse_value hands to its caller.  closes and vlog record what was parsed
\* where: every container closed, and the last value position dispatched.

Frame(kind) ==
    [kind |-> kind, map |-> EmptyMap, arr |-> <<>>, key |-> <<>>,
     log |-> <<>>, comma |-> FALSE, unsep |-> FALSE, iter |-> -1]

NoValue == VNull

NoResult == [st |-> "None"]

ResOk(m) == [st |-> "Ok", map |-> m]

ResErr(e) == [st |-> "Err", err |-> e]

ResPanic == [st |-> "Panic"]

NoFirst == [op |-> "none"]

NoVlog == [at |-> -1]

current == ByteAt(input, pos)

peek_next == ByteAt(input, pos + 1)

Top == stack[Len(stack)]

SetTop(f) == [stack EXCEPT ![Len(stack)] = f]

Pop == SubSeq(stack, 1, Len(stack) - 1)

\* where a value goes back to: the caller of parse_value
AfterValue == IF Top.kind = "obj" THEN "object_after" ELSE "array_after"

Start(S) ==
    /\ input \in S
    /\ pos = 0
    /\ pc = "parse"
    /\ stack = <<>>
    /\ ret = NoValue
    /\ result = NoResult
    /\ phase = 1
    /\ first = NoFirst
    /\ closes = {}
    /\ vlog = NoVlog

\* parse: self.skip_whitespace(); then self.parse_object()
ParseEntry ==
    /\ pc = "parse"
    /\ pos' = skip_whitespace(input, pos)
    /\ pc' = "object_enter"
    /\ UNCHANGED <<input, stack, ret, result, phase, first, closes, vlog>>

\* parse_object, up to the loop: advance over the byte at pos, a new map,
\* skip_whitespace
ObjectEnter ==
    /\ pc = "object_enter"
    /\ pos' = skip_whitespace(input, pos + 1)
    /\ stack' = Append(stack, Frame("obj"))
    /\ pc' = "object_loop"
    /\ UNCHANGED <<input, ret, result, phase, first, closes, vlog>>

\* one pass of parse_object's loop up to the call of parse_value: the key,
\* skip_whitespace, the ':'
ObjectMember ==
    /\ pc = "object_loop"
    /\ current # "}"
    /\ LET key == parse_key(input, pos)
           p == skip_whitespace(input, key.pos)
           ch == ByteAt(input, p)
       IN  IF key.st = "Panic"
           THEN /\ result' = ResPanic
                /\ pos' = key.pos
                /\ pc' = "done"
                /\ UNCHANGED stack
           ELSE IF ch # ":"
           THEN /\ result' = ResErr(UnexpectedChar(p, IF ch = None THEN NUL ELSE ch))
                /\ pos' = p
                /\ pc' = "done"
                /\ UNCHANGED stack
           ELSE /\ pos' = p + 1
                /\ stack' = SetTop([Top EXCEPT !.key = key.val,
                                               !.unsep = @ \/ (Top.log # <<>> /\ ~Top.comma),
                                               !.iter = pos])
                /\ pc' = "value"
                /\ UNCHANGED result
    /\ UNCHANGED <<input, ret, phase, first, closes, vlog>>

\* the end of parse_object: advance over '}', Ok(map)
ObjectClose ==
    /\ pc = "object_loop"
    /\ current = "}"
    /\ pos' = pos + 1
    /\ stack' = Pop
    /\ ret' = VObject(Top.map)
    /\ pc' = IF Len(stack) = 1 THEN "parse_tail" ELSE
             IF stack[Len(stack) - 1].kind = "obj" THEN "object_after" ELSE "array_after"
    /\ closes' = closes \cup {[at |-> pos, kind |-> "obj", log |-> Top.log,
                               val |-> VObject(Top.map), comma |-> Top.comma,
                               unsep |-> Top.unsep]}
    /\ UNCHANGED <<input, result, phase, first, vlog>>

\* the leaf arms with T, F, N taken as literals whatever follows them
ValueLeafNoLookahead(inp, p) ==
    LET ch == ByteAt(inp, p)
    IN  IF ch = Backtick THEN parse_string(inp, p)
        ELSE IF ch = "-" \/ ch \in Digits THEN parse_number(inp, p)
        ELSE IF ch = "T" THEN Ok(VBool(TRUE), p + 1)
        ELSE IF ch = "F" THEN Ok(VBool(FALSE), p + 1)
        ELSE IF ch = "N" THEN Ok(VNull, p + 1)
        ELSE IF ch \in Upper \cup Lower \cup {"_"} THEN parse_constructor(inp, p)
        ELSE IF ch # None THEN Err(UnexpectedChar(p, ch), p)
        ELSE Err(UnexpectedEOF, p)

\* parse_value's leaf arms at position p (after skip_whitespace)
ValueLeaf(inp, p) ==
    LET ch == ByteAt(inp, p)
        next == ByteAt(inp, p + 1)
    IN  IF ch = Backtick THEN parse_string(inp, p)
        ELSE IF ch = "-" \/ ch \in Digits THEN parse_number(inp, p)
        ELSE IF ch = "T" /\ next # "(" THEN Ok(VBool(TRUE), p + 1)
        ELSE IF ch = "F" /\ next # "(" THEN Ok(VBool(FALSE), p + 1)
        ELSE IF ch = "N" /\ next # "(" THEN Ok(VNull, p + 1)
        ELSE IF ch \in Upper \cup Lower \cup {"_"} THEN parse_constructor(inp, p)
        ELSE IF ch # None THEN Err(UnexpectedChar(p, ch), p)
        ELSE Err(UnexpectedEOF, p)

\* parse_value: skip_whitespace, then the match on current()
ParseValue ==
    /\ pc = "value"
    /\ LET p == skip_whitespace(input, pos)
           ch == ByteAt(input, p)
           r == ValueLeaf(input, p)
       IN  IF ch = "{"
           THEN /\ pos' = p
                /\ pc' = "object_enter"
                /\ vlog' = [at |-> p, end |-> p, out |-> [st |-> "Nested"]]
                /\ UNCHANGED <<ret, result>>
           ELSE IF ch = "["
           THEN /\ pos' = p
                /\ pc' = "array_enter"
                /\ vlog' = [at |-> p, end |-> p, out |-> [st |-> "Nested"]]
                /\ UNCHANGED <<ret, result>>
           ELSE /\ vlog' = [at |-> p, end |-> r.pos, out |-> r]
                /\ pos' = r.pos
                /\ IF r.st = "Ok"
                   THEN /\ ret' = r.val
                        /\ pc' = AfterValue
                        /\ UNCHANGED result
                   ELSE /\ result' = IF r.st = "Panic" THEN ResPanic ELSE ResErr(r.err)
                        /\ pc' = "done"
                        /\ UNCHANGED ret
    /\ UNCHANGED <<input, stack, phase, first, closes>>

\* the rest of the pass of parse_object's loop: map.insert(key, value),
\* skip_whitespace, the optional ','
ObjectAfter ==
    /\ pc = "object_after"
    /\ LET p == skip_whitespace(input, pos)
           comma == ByteAt(input, p) = ","
       IN  /\ pos' = IF comma THEN skip_whitespace(input, p + 1) ELSE p
           /\ stack' = SetTop([Top EXCEPT !.map = MapInsert(Top.map, Top.key, ret),
                                          !.log = Append(Top.log, <<Top.key, ret>>),
                                          !.comma = comma])
    /\ pc' = "object_loop"
    /\ UNCHANGED <<input, ret, result, phase, first, closes, vlog>>

\* parse_array, up to the loop
ArrayEnter ==
    /\ pc = "array_enter"
    /\ pos' = skip_whitespace(input, pos + 1)
    /\ stack' = Append(stack, Frame("arr"))
    /\ pc' = "array_loop"
    /\ UNCHANGED <<input, ret, result, phase, first, closes, vlog>>

\* one pass of parse_array's loop up to the call of parse_value
ArrayElement ==
    /\ pc = "array_loop"
    /\ current # "]"
    /\ stack' = SetTop([Top EXCEPT !.unsep = @ \/ (Top.arr # <<>> /\ ~Top.comma),
                                   !.iter = pos])
    /\ pc' = "value"
    /\ UNCHANGED <<input, pos, ret, result, phase, first, closes, vlog>>

\* the end of parse_array: advance over ']', Ok(arr)
ArrayClose ==
    /\ pc = "array_loop"
    /\ current = "]"
    /\ pos' = pos + 1
    /\ stack' = Pop
    /\ ret' = VArray(Top.arr)
    /\ pc' = IF stack[Len(stack) - 1].kind = "obj" THEN "object_after" ELSE "array_after"
    /\ closes' = closes \cup {[at |-> pos, kind |-> "arr", log |-> <<>>,
                               val |-> VArray(Top.arr), comma |-> Top.comma,
                               unsep |-> Top.unsep]}
    /\ UNCHANGED <<input, result, phase, first, vlog>>

\* the rest of the pass with a ',' that must be followed by another element
ArrayAfterNoTrailingComma ==
    /\ pc = "array_after"
    /\ LET p == skip_whitespace(input, pos)
           comma == ByteAt(input, p) = ","
           q == IF comma THEN skip_whitespace(input, p + 1) ELSE p
       IN  /\ pos' = q
           /\ stack' = SetTop([Top EXCEPT !.arr = Append(Top.arr, ret),
                                          !.comma = comma])
           /\ IF comma /\ ByteAt(input, q) = "]"
              THEN result' = ResErr(UnexpectedChar(q, "]")) /\ pc' = "done"
              ELSE result' = result /\ pc' = "array_loop"
    /\ UNCHANGED <<input, ret, phase, first, closes, vlog>>

\* the rest of the pass of parse_array's loop: arr.push(value),
\* skip_whitespace, the optional ','
ArrayAfter ==
    /\ pc = "array_after"
    /\ LET p == skip_whitespace(input, pos)
           comma == ByteAt(input, p) = ","
       IN  /\ pos' = IF comma THEN skip_whitespace(input, p + 1) ELSE p
           /\ stack' = SetTop([Top EXCEPT !.arr = Append(Top.arr, ret),
                                          !.comma = comma])
    /\ pc' = "array_loop"
    /\ UNCHANGED <<input, ret, result, phase, first, closes, vlog>>

\* the end of parse: skip_whitespace, then TrailingData or Ok(result)
ParseTail ==
    /\ pc = "parse_tail"
    /\ LET p == skip_whitespace(input, pos)
       IN  /\ pos' = p
           /\ result' = IF p < Len(input) THEN ResErr(TrailingData(p)) ELSE ResOk(ret.m)
    /\ pc' = "done"
    /\ UNCHANGED <<input, stack, ret, phase, first, closes, vlog>>

\* ------------------------------------------------- a second parse call
\* After a successful parse the caller may stringify the tree and parse the
\* text again (the round trip), or parse the same text with a ',' put before a
\* closing delimiter.  first keeps the first call's input and result.

RECURSIVE AllKeys(_)
AllKeys(v) ==
    IF v.t = "Object"
    THEN (DOMAIN v.m) \cup UNION {AllKeys(v.m[k]) : k \in DOMAIN v.m}
    ELSE IF v.t = "Array" THEN UNION {AllKeys(v.a[i]) : i \in 1..Len(v.a)}
    ELSE {}

\* the iteration orders a hash map may have
Ranks(K) ==
    {f \in [K -> 1..Cardinality(K)] : \A a, b \in K : a # b => f[a] # f[b]}

Indents == {IndentNone, IndentSome(<<" ", " ">>), IndentSome(<<"\t">>)}

CommaTexts == {<<",">>, <<" ", ",", " ">>, <<",", "/", "/", "c", "\n">>}

NonEmpty(c) == IF c.kind = "obj" THEN c.log # <<>> ELSE c.val.a # <<>>

Restart ==
    /\ pos' = 0
    /\ pc' = "parse"
    /\ stack' = <<>>
    /\ ret' = NoValue
    /\ result' = NoResult
    /\ closes' = {}
    /\ vlog' = NoVlog
    /\ phase' = 2

\* parse(&stringify(&DTXTValue::Object(map), indent))
Stringify ==
    /\ pc = "done" /\ phase = 1 /\ result.st = "Ok"
    /\ \E indent \in Indents : \E rank \in Ranks(AllKeys(VObject(result.map))) :
          /\ input' = stringify(VObject(result.map), indent, rank)
          /\ first' = [op |-> "stringify", input |-> input, result |-> result,
                       indent |-> indent, at |-> -1, comma |-> FALSE]
    /\ Restart

\* parse of the same text with a ',' (and insignificant bytes) inserted directly
\* before the closing delimiter of one of its non-empty objects or arrays
InsertComma ==
    /\ pc = "done" /\ phase = 1 /\ result.st = "Ok"
    /\ \E c \in closes : \E sep \in CommaTexts :
          /\ NonEmpty(c)
          /\ input' = Slice(input, 0, c.at) \o sep \o Slice(input, c.at, Len(input))
          /\ first' = [op |-> "comma", input |-> input, result |-> result,
                       indent |-> IndentNone, at |-> c.at, comma |-> c.comma]
    /\ Restart

Next ==
    \/ ParseEntry
    \/ ObjectEnter
    \/ ObjectMember
    \/ ObjectClose
    \/ ParseValue
    \/ ObjectAfter
    \/ ArrayEnter
    \/ ArrayElement
    \/ ArrayClose
    \/ ArrayAfter
    \/ ParseTail
    \/ Stringify
    \/ InsertComma

\* ------------------------------------------------------------ the inputs

\* all sequences over S of length at most n
SeqsUpTo(S, n) == UNION {[1..k -> S] : k \in 0..n}

RECURSIVE Flatten(_)
Flatten(ss) == IF ss = <<>> THEN <<>> ELSE Head(ss) \o Flatten(Tail(ss))

\* a text every step of the parser and both second calls act on
CommonDocs == {<<"{", "a", ":", "[", "T", "]", "}">>}

\* --- top level: what may precede and open the document
TopLeads == {<<>>,
            <<" ">>,
            <<"/", "/", "c", "\n">>,
            <<"\n", " ">>}

TopOpens == {<<"{">>,
            <<"[">>,
            <<"x">>,
            <<"1">>,
            <<Backtick>>}

TopBodies == {<<"}">>,
             <<"a", ":", "1", "}">>,
             <<"a", ":", "[", "T", "]", ",", "}">>,
             <<" ", "a", " ", ":", " ", "N", " ", "}">>,
             <<"a", ":", "1", "]">>,
             <<>>}

TopInputs == {l \o o \o b : l \in TopLeads, o \in TopOpens, b \in TopBodies} \cup TopLeads

Spec == Start(TopInputs \cup CommonDocs) /\ [][Next]_vars

\* C1: parse returns Ok only for a text whose first byte after the leading
\* whitespace and comments is '{'
C1_OnlyObjectsParse ==
    (pc = "done" /\ phase = 1 /\ result.st = "Ok")
        => ByteAt(input, skip_whitespace(input, 0)) = "{"

\* --- trailing data: complete objects followed by a tail
MaxTail == 4

TrailingDocs == {<<"{", "}">>,
                <<"{", "a", ":", "1", "}">>,
                <<" ", "{", "a", ":", "[", "T", ",", "]", ",", "b", ":", Backtick, "}", Backtick, "}">>,
                <<"{", "a", ":", "{", "}", "/", "/", "}", "\n", "}">>}

TailBytes == {" ", "\n", "/", "x", "}"}

TrailingInputs == {d \o t : d \in TrailingDocs, t \in SeqsUpTo(TailBytes, MaxTail)}

SpecTrailing == Start(TrailingInputs \cup CommonDocs) /\ [][Next]_vars

\* The index of the first byte of t at or after i that is neither whitespace nor
\* inside a '//' comment (which runs to the next newline or to the end), or -1:
\* a byte-by-byte scan, inComment telling whether i is inside a comment.
RECURSIVE FirstSignificant(_, _, _)
FirstSignificant(t, i, inComment) ==
    IF i >= Len(t) THEN -1
    ELSE IF inComment THEN FirstSignificant(t, i + 1, t[i + 1] # "\n")
    ELSE IF t[i + 1] \in {" ", "\t", "\r", "\n"} THEN FirstSignificant(t, i + 1, FALSE)
    ELSE IF t[i + 1] = "/" /\ ByteAt(t, i + 1) = "/" THEN FirstSignificant(t, i + 2, TRUE)
    ELSE i

IsPrefix(d, t) == Len(d) <= Len(t) /\ SubSeq(t, 1, Len(d)) = d

\* C2: a complete top-level object followed by a significant byte fails with
\* TrailingData at the index of the first such byte; followed only by whitespace
\* and comments (a last comment may lack its newline) it parses
C2_TrailingData ==
    \A d \in TrailingDocs :
        (pc = "done" /\ IsPrefix(d, input)) =>
            LET p == FirstSignificant(input, Len(d), FALSE)
            IN  IF p = -1 THEN result.st = "Ok"
                ELSE result = ResErr(TrailingData(p))

\* TrailingData reported past a comment that follows the object
C2_Witness ==
    /\ pc = "done"
    /\ result.st = "Err" /\ result.err.kind = "TrailingData"
    /\ \E d \in TrailingDocs :
          /\ IsPrefix(d, input)
          /\ ByteAt(input, Len(d)) = "/"
          /\ result.err.pos > Len(d) + 2

\* a successful parse of an object followed by a comment with no newline
C2_WitnessOk ==
    /\ pc = "done" /\ result.st = "Ok"
    /\ \E d \in TrailingDocs : IsPrefix(d, input) /\ ByteAt(input, Len(input) - 1) = "/"

\* --- B(payload)
MaxPayload == 4

PayloadBytes == {"1", "A", "f", "G", "+"}

BytesInputs ==
    {<<"{", "a", ":", "B", "(">> \o b \o <<")", "}">> : b \in SeqsUpTo(PayloadBytes, MaxPayload)}

SpecBytes == Start(BytesInputs \cup CommonDocs) /\ [][Next]_vars

\* the value of a hexadecimal digit 0-9, a-f, A-F, by its place in the ASCII order
IsHexDigit(ch) ==
    \/ ch \in Digits
    \/ ch \in Upper /\ Ord(ch) <= Ord("F")
    \/ ch \in Lower /\ Ord(ch) <= Ord("f")

HexDigitValue(ch) ==
    IF ch \in Digits THEN Ord(ch) - Ord("0")
    ELSE IF ch \in Upper THEN 10 + Ord(ch) - Ord("A")
    ELSE 10 + Ord(ch) - Ord("a")

\* C3: B(payload) is the error InvalidConstructor when the payload has odd length
\* or a byte that is no hexadecimal digit, and otherwise Bytes, one byte per pair
\* of digits, the most significant nibble first
C3_HexPayload ==
    (pc = "done" /\ phase = 1 /\ input \in BytesInputs) =>
        LET payload == Slice(input, 5, Len(input) - 2)
            wellFormed == /\ Len(payload) % 2 = 0
                          /\ \A i \in 1..Len(payload) : IsHexDigit(payload[i])
            bytes == [i \in 1..(Len(payload) \div 2) |->
                         16 * HexDigitValue(payload[2 * i - 1]) + HexDigitValue(payload[2 * i])]
        IN  IF wellFormed THEN result = ResOk(MapInsert(EmptyMap, <<"a">>, VBytes(bytes)))
            ELSE result.st = "Err" /\ result.err.kind = "InvalidConstructor"

\* --- input that ends early: the proper prefixes of complete documents
TruncatedDocs == {<<"{", "a", ":", "[", "1", ",", Backtick, "x", Backtick, "]", ",", "b", ":", "D", "(", "2", ")", "}">>,
                 <<"{", " ", "k", " ", ":", " ", "{", "d", ":", "B", "N", "(", "3", ")", ",", "}", " ", "}">>,
                 <<"{", "a", ":", "[", "[", "T", "]", ",", "N", "]", "}">>}

TruncatedInputs ==
    UNION {{SubSeq(d, 1, n) : n \in 1..(Len(d) - 1)} : d \in TruncatedDocs}

SpecTruncated == Start(TruncatedInputs \cup CommonDocs) /\ [][Next]_vars

\* C4: input that ends while an object, an array, a string or a constructor
\* payload is open fails with UnexpectedEOF
C4_UnexpectedEOF ==
    (pc = "done" /\ phase = 1 /\ input \in TruncatedInputs) => result = ResErr(UnexpectedEOF)

\* --- round trip: objects of up to MaxMembers members over these values
MaxMembers == 2

RoundTripKeys == {<<"a">>, <<"b">>}

RoundTripValues == {<<"1">>,
                   <<"-", "0">>,
                   <<"1", ".", "5">>,
                   <<"1", "e", "9", "9", "9">>,
                   <<"0", ".", "0", "0", "1">>,
                   <<"1", "e", "2", "1">>,
                   <<"1", "2", "e", "-", "9">>,
                   <<Backtick, "x", " ", "y", Backtick>>,
                   <<"T">>,
                   <<"N">>,
                   <<"B", "N", "(", "-", "1", "2", ")">>,
                   <<"D", "(", "2", "T", "3", ")">>,
                   <<"B", "(", "1", "a", ")">>,
                   <<"[", "1", ",", "[", "F", "]", "]">>,
                   <<"{", "k", ":", "[", "]", "}">>}

\* the members joined by ','
RECURSIVE JoinMembers(_)
JoinMembers(ms) ==
    IF ms = <<>> THEN <<>>
    ELSE IF Len(ms) = 1 THEN Head(ms)
    ELSE Head(ms) \o <<",">> \o JoinMembers(Tail(ms))

ObjectTexts(Keys, Values, n) ==
    {<<"{">> \o JoinMembers(ms) \o <<"}">> :
        ms \in SeqsUpTo({k \o <<":">> \o v : k \in Keys, v \in Values}, n)}

RoundTripInputs == ObjectTexts(RoundTripKeys, RoundTripValues, MaxMembers)

SpecRoundTrip == Start(RoundTripInputs \cup CommonDocs) /\ [][Next]_vars

\* C5: parse(stringify(v, indent)) succeeds and normalizes to what v normalizes
\* to, for compact and for indented output
C5_RoundTrip ==
    (pc = "done" /\ phase = 2 /\ first.op = "stringify") =>
        /\ result.st = "Ok"
        /\ normalize(VObject(result.map)) = normalize(VObject(first.result.map))

\* --- keys: objects of up to MaxKeyed members, keys repeated and in any order
MaxKeyed == 3

KeyedKeys == {<<"z">>, <<"a">>, <<"a", "b">>, <<"Z">>}

KeyedValues == {<<"1">>, <<"2">>}

KeyedNested == {<<"{", "b", ":", "{", "z", ":", "1", ",", "a", ":", "2", ",", "z", ":", "3", "}", ",", "a", ":", "[", "{", "m", ":", "N", ",", "a", "b", ":", "T", ",", "m", ":", "F", "}", "]", "}">>}

KeyedInputs == ObjectTexts(KeyedKeys, KeyedValues, MaxKeyed) \cup KeyedNested

SpecKeys == Start(KeyedInputs \cup CommonDocs) /\ [][Next]_vars

\* the place of the last member of log with key k
LastOf(log, k) ==
    CHOOSE i \in 1..Len(log) : log[i][1] = k /\ \A j \in (i + 1)..Len(log) : log[j][1] # k

\* the top-level object's close: the last one in the text
TopClose == CHOOSE c \in closes : \A d \in closes : d.at <= c.at

\* C6: a parsed object has one entry per distinct key of its text, holding the
\* value of the key's last occurrence; n distinct keys give n entries
C6_KeyOverwrite ==
    \A c \in closes :
        c.kind = "obj" =>
            LET keys == {c.log[i][1] : i \in 1..Len(c.log)}
            IN  /\ DOMAIN c.val.m = keys
                /\ Cardinality(DOMAIN c.val.m) = Cardinality(keys)
                /\ \A k \in keys : c.val.m[k] = c.log[LastOf(c.log, k)][2]
                /\ (pc = "done" /\ result.st = "Ok" /\ c = TopClose) => result.map = c.val.m

\* a parsed object text that gives one key two different values
C6_Witness ==
    /\ pc = "done" /\ phase = 1 /\ result.st = "Ok"
    /\ \E c \in closes :
          /\ c.kind = "obj"
          /\ \E i, j \in 1..Len(c.log) :
                i < j /\ c.log[i][1] = c.log[j][1] /\ c.log[i][2] # c.log[j][2]

\* a < b in the byte-lexicographic order: at the first place they differ a has
\* the smaller byte, or a ends there and b goes on
ByteLexLess(a, b) ==
    \E i \in 1..(Len(b)) :
        /\ i <= Len(a) + 1
        /\ \A j \in 1..(i - 1) : a[j] = b[j]
        /\ (i = Len(a) + 1 \/ Ord(a[i]) < Ord(b[i]))

\* C9: stringify emits the members of every object in ascending byte-lexicographic
\* key order, compact or indented, so the text is the same whatever order the map
\* holds its keys in.  (The second parse reads the members back in text order.)
C9_SortedKeys ==
    (phase = 2 /\ first.op = "stringify") =>
        /\ \A rank \in Ranks(AllKeys(VObject(first.result.map))) :
              pc = "parse" =>
                  input = stringify(VObject(first.result.map), first.indent, rank)
        /\ \A c \in closes :
              c.kind = "obj" =>
                  \A i, j \in 1..Len(c.log) : i < j => ByteLexLess(c.log[i][1], c.log[j][1])

\* the indented text of an object whose keys the text gave in descending order,
\* parsed back
C9_Witness ==
    /\ phase = 2 /\ first.op = "stringify" /\ first.indent.some
    /\ pc = "done" /\ result.st = "Ok"
    /\ Cardinality(DOMAIN result.map) >= 3
    /\ IsPrefix(<<"{", "z", ":">>, first.input)

\* --- numbers: every lexeme of up to MaxNumber bytes at a value position
MaxNumber == 4

NumberBytes == {"-", "0", "1", ".", "e", "+"}

NumberInputs ==
    {<<"{", "a", ":">> \o n \o <<"}">> : n \in SeqsUpTo(NumberBytes, MaxNumber)}

SpecNumbers == Start(NumberInputs \cup CommonDocs) /\ [][Next]_vars

IsDigits(t) == t # <<>> /\ \A i \in 1..Len(t) : t[i] \in Digits

JsonInt(t) == t = <<"0">> \/ (IsDigits(t) /\ t[1] # "0")

JsonFrac(t) == t = <<>> \/ (t[1] = "." /\ IsDigits(Tail(t)))

JsonExp(t) ==
    \/ t = <<>>
    \/ /\ t[1] \in {"e", "E"}
       /\ \/ IsDigits(Tail(t))
          \/ Len(t) >= 2 /\ t[2] \in {"+", "-"} /\ IsDigits(SubSeq(t, 3, Len(t)))

\* '-'? ('0' | [1-9][0-9]*) ('.' [0-9]+)? ([eE][+-]?[0-9]+)?
JsonNumber(t) ==
    LET u == IF t # <<>> /\ t[1] = "-" THEN Tail(t) ELSE t
    IN  \E i \in 0..Len(u) : \E j \in i..Len(u) :
            /\ JsonInt(SubSeq(u, 1, i))
            /\ JsonFrac(SubSeq(u, i + 1, j))
            /\ JsonExp(SubSeq(u, j + 1, Len(u)))

\* C7: a value starting with '-' or a digit becomes a Number only if the bytes
\* consumed for it match the JSON numeric grammar
C7_JsonNumbersOnly ==
    (vlog.at >= 0 /\ vlog.out.st = "Ok" /\ vlog.out.val.t = "Number")
        => JsonNumber(Slice(input, vlog.at, vlog.end))

\* --- identifiers: every text of up to MaxIdent bytes at a value position, as an
\* object member's value and as an array element
MaxIdent == 4

IdentBytes == {"T", "F", "N", "B", "x", "(", ")"}

IdentInputs ==
    {<<"{", "a", ":">> \o t \o <<"}">> : t \in SeqsUpTo(IdentBytes, MaxIdent)}
    \cup {<<"{", "a", ":", "[">> \o t \o <<",", "D", "(", "x", ")", "]", "}">> : t \in SeqsUpTo(IdentBytes, MaxIdent)}

SpecIdent == Start(IdentInputs \cup CommonDocs) /\ [][Next]_vars

\* the last value position: its byte, the next byte, the identifier that starts
\* there (the longest run of letters, digits and '_'), whether a '(' follows the
\* identifier and whether a ')' closes the payload
ValueByte == ByteAt(input, vlog.at)

ValueIdent == Slice(input, vlog.at, ScanKey(input, vlog.at))

IdentCalled == ByteAt(input, vlog.at + Len(ValueIdent)) = "("

PayloadClosed == Memchr(")", input, vlog.at + Len(ValueIdent) + 1) # -1

AtIdentifier == vlog.at >= 0 /\ ValueByte \in Upper \cup Lower \cup {"_"}

LiteralOf(ch) == IF ch = "T" THEN VBool(TRUE) ELSE IF ch = "F" THEN VBool(FALSE) ELSE VNull

FailsNaming(name) == vlog.out.st = "Err" /\ vlog.out.err = InvalidConstructor(name)

\* T, F, N not followed by '(' are the literals and take one byte; followed by
\* '(' ... ')' they are rejected as constructors named T, F, N
LiteralOrConstructor ==
    (vlog.at >= 0 /\ ValueByte \in {"T", "F", "N"}) =>
        IF ByteAt(input, vlog.at + 1) # "("
        THEN vlog.out = Ok(LiteralOf(ValueByte), vlog.at + 1) /\ vlog.end = vlog.at + 1
        ELSE PayloadClosed => FailsNaming(<<ValueByte>>)

\* an identifier with no '(' after it, or one other than D, BN, B with a payload
UndefinedIdentifier ==
    \/ ~IdentCalled
    \/ IdentCalled /\ PayloadClosed /\ ValueIdent \notin {<<"D">>, <<"B", "N">>, <<"B">>}

\* C8 as stated: the literals T, F, N against constructors, and every identifier
\* that is no defined constructor call (the one-byte literals aside) fails with
\* InvalidConstructor naming the identifier
C8_AsStated ==
    /\ LiteralOrConstructor
    /\ (AtIdentifier /\ UndefinedIdentifier
            /\ ~(ValueIdent \in {<<"T">>, <<"F">>, <<"N">>} /\ ~IdentCalled))
        => FailsNaming(ValueIdent)

\* C8 (amended): the same, for the identifiers that do not begin with T, F or N;
\* one that begins with T, F or N and goes on with another byte than '(' has its
\* first byte read as the literal
C8_Disambiguation ==
    /\ LiteralOrConstructor
    /\ (AtIdentifier /\ UndefinedIdentifier /\ ValueByte \notin {"T", "F", "N"})
        => FailsNaming(ValueIdent)

\* T(...) met at a value position and rejected
C8_Witness ==
    /\ vlog.at >= 0 /\ ValueByte = "T" /\ ByteAt(input, vlog.at + 1) = "("
    /\ PayloadClosed
    /\ FailsNaming(<<"T">>)
    /\ pc = "done" /\ result = ResErr(InvalidConstructor(<<"T">>))

\* --- trailing commas: arrays and objects of up to MaxTokens tokens
MaxTokens == 4

ArrayTokens == {<<"1">>, <<",">>, <<" ">>, <<"[">>, <<"]">>, <<"T">>}

ObjectTokens == {<<"a", ":", "1">>, <<"b", ":", "{">>, <<"}">>, <<",">>, <<" ">>}

CommaInputs ==
    {<<"{", "a", ":", "[">> \o Flatten(ts) \o <<"]", "}">> : ts \in SeqsUpTo(ArrayTokens, MaxTokens)}
    \cup {<<"{">> \o Flatten(ts) \o <<"}">> : ts \in SeqsUpTo(ObjectTokens, MaxTokens)}

SpecComma == Start(CommaInputs \cup CommonDocs) /\ [][Next]_vars

\* C10 as stated: a ',' put before the closing delimiter of any non-empty array
\* or object of a text that parses gives a text that parses to an equal value
C10_AsStated ==
    (pc = "done" /\ phase = 2 /\ first.op = "comma") =>
        result.st = "Ok" /\ result.map = first.result.map

\* C10 (amended): so it is when the last element or member is not already
\* followed by a ','
C10_TrailingComma ==
    (pc = "done" /\ phase = 2 /\ first.op = "comma" /\ ~first.comma) =>
        result.st = "Ok" /\ result.map = first.result.map

\* a ',' put before the ']' of a nested non-empty array, parsed to an equal value
C10_Witness ==
    /\ pc = "done" /\ phase = 2 /\ first.op = "comma" /\ ~first.comma
    /\ ByteAt(first.input, first.at) = "]"
    /\ result.st = "Ok" /\ result.map = first.result.map
    /\ \E k \in DOMAIN result.map :
          /\ result.map[k].t = "Array"
          /\ \E i \in DOMAIN result.map[k].a : result.map[k].a[i].t = "Array"

\* --- the cursor: Spec has the empty text and the texts of only whitespace or
\* comments among its inputs

\* C11: in every state of a parse call 0 <= pos <= len(input), and no slice of
\* the input is taken beyond its length (which would panic)
C11_CursorBound ==
    /\ 0 <= pos
    /\ pos <= Len(input)
    /\ result.st # "Panic"

\* --- separators: arrays and objects of up to MaxElems tokens, with and without
\* ',' between their elements and members
MaxElems == 3

ElemTokens == {<<"1">>, <<"T">>, <<"F">>, <<",">>, <<" ">>, <<"[", "2", "]">>}

MemberTokens == {<<"a", ":", "1">>, <<"b", ":", "2">>, <<"c", ":", "{", "}">>, <<",">>, <<" ">>}

SeparatorInputs ==
    {<<"{", "a", ":", "[">> \o Flatten(ts) \o <<"]", "}">> : ts \in SeqsUpTo(ElemTokens, MaxElems)}
    \cup {<<"{">> \o Flatten(ts) \o <<"}">> : ts \in SeqsUpTo(MemberTokens, MaxElems)}

SpecSeparators == Start(SeparatorInputs \cup CommonDocs) /\ [][Next]_vars

\* C12: a text in which a member or element follows another one of the same
\* object or array without a ',' between them does not parse successfully
C12_SeparatorRequired ==
    (pc = "done" /\ result.st = "Ok") => \A c \in closes : ~c.unsep

\* --- layout: objects of up to MaxLayout members whose values nest arrays and
\* objects, empty and not
MaxLayout == 2

LayoutKeys == {<<"a">>, <<"b">>}

LayoutValues == {<<"T">>,
                 <<"1">>,
                 <<"[", "]">>,
                 <<"{", "}">>,
                 <<"[", "N", ",", "[", "T", "]", "]">>,
                 <<"{", "d", ":", "[", "{", "}", "]", ",", "c", ":", "N", "}">>,
                 <<"[", "[", "]", ",", "{", "e", ":", "2", "}", "]">>}

LayoutInputs == ObjectTexts(LayoutKeys, LayoutValues, MaxLayout)

SpecLayout == Start(LayoutInputs \cup CommonDocs) /\ [][Next]_vars

IsContainer(v) == v.t \in {"Array", "Object"}

IsEmptyContainer(v) ==
    (v.t = "Array" /\ v.a = <<>>) \/ (v.t = "Object" /\ DOMAIN v.m = {})

\* what a value that is no non-empty array or object is written as
AtomText(v) ==
    IF v.t = "Array" THEN <<"[", "]">>
    ELSE IF v.t = "Object" THEN <<"{", "}">>
    ELSE stringify_value(v, IndentNone, 0, <<>>)

\* the keys of a map in ascending byte-lexicographic order
RECURSIVE AscendingKeys(_)
AscendingKeys(ks) ==
    IF ks = {} THEN <<>>
    ELSE LET k == CHOOSE x \in ks : \A y \in ks \ {x} : ByteLexLess(x, y)
         IN  <<k>> \o AscendingKeys(ks \ {k})

\* the entries of a non-empty array or object: what precedes each value on its
\* line (nothing, or the key and sep) and the value
Entries(v, sep) ==
    IF v.t = "Array" THEN [i \in 1..Len(v.a) |-> [label |-> <<>>, val |-> v.a[i]]]
    ELSE LET keys == AscendingKeys(DOMAIN v.m)
         IN  [i \in 1..Len(keys) |-> [label |-> keys[i] \o sep, val |-> v.m[keys[i]]]]

Opener(v) == IF v.t = "Array" THEN <<"[">> ELSE <<"{">>

Closer(v) == IF v.t = "Array" THEN <<"]">> ELSE <<"}">>

\* the compact layout: no whitespace, one ',' between entries, none before the
\* closing delimiter
RECURSIVE CompactLayout(_)
CompactLayout(v) ==
    IF ~IsContainer(v) \/ IsEmptyContainer(v) THEN AtomText(v)
    ELSE LET es == Entries(v, <<":">>)
         IN  Opener(v)
             \o JoinMembers([i \in 1..Len(es) |-> es[i].label \o CompactLayout(es[i].val)])
             \o Closer(v)

\* the indented layout of a value at nesting level L as its lines: the opening
\* delimiter ends a line; each entry begins a line with L+1 copies of the unit
\* and ends one with ','; the closing delimiter follows L copies of the unit
RECURSIVE IndentedLines(_, _, _)
IndentedLines(v, unit, L) ==
    IF ~IsContainer(v) \/ IsEmptyContainer(v) THEN <<AtomText(v)>>
    ELSE LET es == Entries(v, <<":", " ">>)
             EntryLines(e) ==
                 LET ls == IndentedLines(e.val, unit, L + 1)
                 IN  [i \in 1..Len(ls) |->
                        (IF i = 1 THEN Repeat(unit, L + 1) \o e.label ELSE <<>>)
                        \o ls[i]
                        \o (IF i = Len(ls) THEN <<",">> ELSE <<>>)]
         IN  <<Opener(v)>>
             \o Flatten([i \in 1..Len(es) |-> EntryLines(es[i])])
             \o <<Repeat(unit, L) \o Closer(v)>>

\* the lines with a newline between them
RECURSIVE JoinLines(_)
JoinLines(ls) ==
    IF ls = <<>> THEN <<>>
    ELSE IF Len(ls) = 1 THEN Head(ls)
    ELSE Head(ls) \o <<"\n">> \o JoinLines(Tail(ls))

Stringified == phase = 2 /\ first.op = "stringify" /\ pc = "parse"

\* C13: the text stringify gives has the compact layout when indent is None and
\* the indented layout when it is Some(unit); empty arrays and objects are []
\* and {} in both
C13_StringifyLayout ==
    Stringified =>
        input = IF first.indent.some
                THEN JoinLines(IndentedLines(VObject(first.result.map), first.indent.unit, 0))
                ELSE CompactLayout(VObject(first.result.map))

\* an indented text of two members, one of them an array that holds a non-empty
\* array, an empty one in it or beside it
C13_Witness ==
    /\ Stringified /\ first.indent.some
    /\ Cardinality(DOMAIN first.result.map) = 2
    /\ \E k \in DOMAIN first.result.map :
          LET v == first.result.map[k]
          IN  /\ v.t = "Array"
              /\ \E i \in 1..Len(v.a) : v.a[i].t = "Array" /\ v.a[i].a # <<>>
    /\ \E k \in DOMAIN first.result.map : IsEmptyContainer(first.result.map[k])

\* --- progress: Spec's inputs, the empty text and the texts of only whitespace
\* or comments among them

InLoop == pc \in {"object_loop", "array_loop"}

\* the steps a parse call has left are bounded by Variant: the bytes ahead of
\* the cursor first, then how far the parser is from its next advance
PcRank ==
    CASE pc = "parse" -> 5
      [] pc \in {"object_after", "array_after"} -> 4
      [] InLoop -> 3
      [] pc = "value" -> 2
      [] pc \in {"object_enter", "array_enter", "parse_tail"} -> 1
      [] pc = "done" -> 0

Variant == 6 * (Len(input) + 1 - pos) + PcRank

\* C14: within a parse call the cursor never decreases; a pass of the member
\* loop or of the element loop that comes back to the head of its loop leaves
\* the cursor strictly after the position the pass began at, and a pass that does
\* not come back ends the call with an error; every step brings the call nearer
\* its end (Variant decreases and stays at least 0), so the call finishes
C14_ParseProgress ==
    [][phase' = phase =>
          /\ pos' >= pos
          /\ (InLoop' /\ Top'.iter >= 0) => pos' > Top'.iter
          /\ (pc' = "done" /\ pc \notin {"parse_tail", "done"}) => result'.st = "Err"
          /\ Variant' < Variant /\ Variant' >= 0]_vars

\* what holds of the passes that end in a panic too
ProgressOrAbort ==
    [][phase' = phase =>
          /\ pos' >= pos
          /\ (InLoop' /\ Top'.iter >= 0) => pos' > Top'.iter
          /\ Variant' < Variant /\ Variant' >= 0]_vars

====
